---- MODULE Spec2Model ----
(***************************************************************************)
(* Model of scraper/scrape_udyam.py: the UdyamScraper form-to-schema       *)
(* extraction and the main() scrape-and-save cycle.                        *)
(*                                                                         *)
(* A Python str is a sequence of one-character strings, so that strip()    *)
(* and the f-string formatting are computed, not assumed.  A value read    *)
(* from the renderer is None, Str(s), or Raises (the call throws).         *)
(***************************************************************************)
EXTENDS Integers, Sequences, FiniteSets, TLC

\* ------------------------------------------------------------------ bounds
MaxOptions == 3
MaxControls == 2
MaxLabels == 2

\* ---------------------------------------------------------- Python values
None == [k |-> "None"]
Raises == [k |-> "raise"]
Str(s) == [k |-> "str", v |-> s]
List(xs) == [k |-> "list", v |-> xs]

\* Python truthiness of an optional string: None and "" are falsy.
Truthy(x) == x.k = "str" /\ x.v # <<>>

\* `a or b` on optional strings.
Or(a, b) == IF Truthy(a) THEN a ELSE b

\* The characters str.strip() removes: those for which str.isspace() holds.
\* A character that has no literal here is written as its code point.
WS ==
    {"\t", "\n", "U+000B", "\f", "\r", "U+001C", "U+001D", "U+001E",
     "U+001F", " ", "U+0085", "U+00A0", "U+1680", "U+2000", "U+2001",
     "U+2002", "U+2003", "U+2004", "U+2005", "U+2006", "U+2007", "U+2008",
     "U+2009", "U+200A", "U+2028", "U+2029", "U+202F", "U+205F", "U+3000"}

RECURSIVE lstrip(_)
lstrip(s) == IF s # <<>> /\ Head(s) \in WS THEN lstrip(Tail(s)) ELSE s

RECURSIVE rstrip(_)
rstrip(s) ==
    IF s # <<>> /\ s[Len(s)] \in WS THEN rstrip(SubSeq(s, 1, Len(s) - 1)) ELSE s

\* str.strip()
strip(s) == rstrip(lstrip(s))

Digits == <<"0", "1", "2", "3", "4", "5", "6", "7", "8", "9">>

RECURSIVE IntToStr(_)
\* str(n) for n >= 0, as the f-strings format step_number
IntToStr(n) ==
    IF n < 10 THEN <<Digits[n + 1]>>
    ELSE IntToStr(n \div 10) \o <<Digits[(n % 10) + 1]>>

\* ------------------------------------------------------- string literals
STR_required == <<"r", "e", "q", "u", "i", "r", "e", "d">>
STR_pattern_prefix == <<"p", "a", "t", "t", "e", "r", "n", ":", " ">>
STR_max_length_prefix ==
    <<"m", "a", "x", "_", "l", "e", "n", "g", "t", "h", ":", " ">>
STR_min_length_prefix ==
    <<"m", "i", "n", "_", "l", "e", "n", "g", "t", "h", ":", " ">>
STR_email == <<"e", "m", "a", "i", "l">>
STR_tel == <<"t", "e", "l">>
STR_text == <<"t", "e", "x", "t">>
STR_select == <<"s", "e", "l", "e", "c", "t">>
STR_textarea == <<"t", "e", "x", "t", "a", "r", "e", "a">>
STR_email_format ==
    <<"e", "m", "a", "i", "l", "_", "f", "o", "r", "m", "a", "t">>
STR_phone_format ==
    <<"p", "h", "o", "n", "e", "_", "f", "o", "r", "m", "a", "t">>
STR_colon_space == <<":", " ">>
STR_hash == <<"#">>
STR_Step_prefix == <<"S", "t", "e", "p", " ">>
STR_Step2_PAN ==
    <<"S", "t", "e", "p", " ", "2", ":", " ", "P", "A", "N", " ",
      "V", "a", "l", "i", "d", "a", "t", "i", "o", "n">>

\* The attributes the scraper reads from a control.
AttrNames ==
    {"type", "name", "id", "placeholder", "required", "pattern",
     "maxlength", "minlength"}

\* The attributes extract_field_validation reads.
ValidationAttrs == {"required", "pattern", "maxlength", "minlength", "type"}

\* ------------------------------------------------ extract_field_validation
\* Variant: the type check chained onto the pattern check with elif, so a
\* pattern suppresses the type tag.
validation_rules_of_elif(attrs) ==
    (IF Truthy(attrs["required"]) THEN <<STR_required>> ELSE <<>>)
    \o (IF Truthy(attrs["pattern"])
        THEN <<STR_pattern_prefix \o attrs["pattern"].v>>
        ELSE IF attrs["type"] = Str(STR_email) THEN <<STR_email_format>>
        ELSE IF attrs["type"] = Str(STR_tel) THEN <<STR_phone_format>>
        ELSE <<>>)
    \o (IF Truthy(attrs["maxlength"])
        THEN <<STR_max_length_prefix \o attrs["maxlength"].v>> ELSE <<>>)
    \o (IF Truthy(attrs["minlength"])
        THEN <<STR_min_length_prefix \o attrs["minlength"].v>> ELSE <<>>)

\* The rules appended for an element whose five reads all return.
validation_rules_of(attrs) ==
    (IF Truthy(attrs["required"]) THEN <<STR_required>> ELSE <<>>)
    \o (IF Truthy(attrs["pattern"])
        THEN <<STR_pattern_prefix \o attrs["pattern"].v>> ELSE <<>>)
    \o (IF Truthy(attrs["maxlength"])
        THEN <<STR_max_length_prefix \o attrs["maxlength"].v>> ELSE <<>>)
    \o (IF Truthy(attrs["minlength"])
        THEN <<STR_min_length_prefix \o attrs["minlength"].v>> ELSE <<>>)
    \o (IF attrs["type"] = Str(STR_email) THEN <<STR_email_format>>
        ELSE IF attrs["type"] = Str(STR_tel) THEN <<STR_phone_format>>
        ELSE <<>>)

\* extract_field_validation: every read is unguarded, so a throwing
\* get_attribute leaves the function by exception.
extract_field_validation(attrs) ==
    IF \E a \in ValidationAttrs : attrs[a] = Raises
    THEN Raises
    ELSE List(validation_rules_of(attrs))

\* ------------------------------------------------ extract_dropdown_options
RECURSIVE dropdown_loop_or(_, _)
\* Variant: `if value or text` in place of `if value and text`.
dropdown_loop_or(opts, acc) ==
    IF opts = <<>> THEN acc
    ELSE LET option == Head(opts) IN
         IF option.value = Raises \/ option.text = Raises THEN acc
         ELSE LET text == strip(option.text.v) IN
              dropdown_loop_or(Tail(opts),
                  IF Truthy(option.value) \/ text # <<>>
                  THEN Append(acc, Or(option.value, Str(<<>>)).v
                                   \o STR_colon_space \o text)
                  ELSE acc)

RECURSIVE dropdown_loop(_, _)
\* The for loop inside the try: an exception ends the loop and the options
\* appended so far are what the function returns.
dropdown_loop(opts, acc) ==
    IF opts = <<>> THEN acc
    ELSE LET option == Head(opts) IN
         IF option.value = Raises \/ option.text = Raises THEN acc
         ELSE LET text == strip(option.text.v) IN
              dropdown_loop(Tail(opts),
                  IF Truthy(option.value) /\ text # <<>>
                  THEN Append(acc, option.value.v \o STR_colon_space \o text)
                  ELSE acc)

\* select_options is what find_elements(By.TAG_NAME, "option") yields:
\* Raises, or List of option elements [value, text].
extract_dropdown_options(select_options) ==
    IF select_options = Raises THEN <<>>
    ELSE dropdown_loop(select_options.v, <<>>)

\* ----------------------------------------------------- dataclass records
\* FormField(...); options, max_length and pattern default to None.
FormField(name, type, label, placeholder, required, rules, options, css) ==
    [name |-> name, type |-> type, label |-> label,
     placeholder |-> placeholder, required |-> required,
     validation_rules |-> rules, options |-> options,
     max_length |-> None, pattern |-> None, css_selector |-> css]

\* FormStep(...); validation_rules is list(set(...)), whose order Python
\* leaves to the hash seed, so it is kept as the set.
FormStep(step_number, title, description, fields, validation_rules) ==
    [step_number |-> step_number, title |-> title,
     description |-> description, fields |-> fields,
     validation_rules |-> validation_rules]

\* --------------------------------------------------------- label lookups
RECURSIVE find_label_for(_, _)
\* driver.find_element(By.CSS_SELECTOR, "label[for='<id>']"): the first
\* label of the page whose `for` is the id, or NoSuchElementException.
find_label_for(labels, field_id) ==
    IF labels = <<>> THEN Raises
    ELSE IF Head(labels).for = field_id THEN Head(labels)
    ELSE find_label_for(Tail(labels), field_id)

\* if field_id: try: label = find_element(...).text.strip() except: pass
label_by_id(labels, field_id) ==
    IF field_id = <<>> THEN <<>>
    ELSE LET label_elem == find_label_for(labels, field_id) IN
         IF label_elem = Raises THEN <<>>
         ELSE IF label_elem.text = Raises THEN <<>>
         ELSE strip(label_elem.text.v)

\* if not label: try: label = parent.text.strip() except: pass
\* ctl.parent is the outcome of find_element(By.XPATH, "./..").text
label_by_parent(ctl, label) ==
    IF label # <<>> THEN label
    ELSE IF ctl.parent = Raises THEN <<>>
    ELSE strip(ctl.parent.v)

\* Variant: the selector built without the `if field_id` test.
css_selector_always(field_id) == STR_hash \o field_id

\* f"#{field_id}" if field_id else ""
css_selector_of(field_id) ==
    IF field_id # <<>> THEN STR_hash \o field_id ELSE <<>>

\* An unguarded get_attribute among `names` throws.
AnyRaises(attrs, names) == \E a \in names : attrs[a] = Raises

\* ------------------------------------------ extract_form_fields, one body
\* Body of the `for input_elem in input_elements` try block: the FormField,
\* or Raises when the except clause skips the control.
process_input(ctl, labels) ==
    LET attrs == ctl.attrs
        validation_rules == extract_field_validation(attrs)
    IN  IF AnyRaises(attrs, {"type", "name", "id", "placeholder", "required"})
           \/ validation_rules = Raises
        THEN Raises
        ELSE LET field_type == Or(attrs["type"], Str(STR_text)).v
                 field_name ==
                     Or(Or(attrs["name"], attrs["id"]), Str(<<>>)).v
                 field_id == Or(attrs["id"], Str(<<>>)).v
                 label == label_by_parent(ctl, label_by_id(labels, field_id))
                 placeholder == Or(attrs["placeholder"], Str(<<>>)).v
                 required == Truthy(attrs["required"])
             IN  FormField(field_name, field_type, label, placeholder,
                           required, validation_rules.v, None,
                           css_selector_of(field_id))

\* Body of the `for select_elem in select_elements` try block.
process_select(ctl, labels) ==
    LET attrs == ctl.attrs
        validation_rules == extract_field_validation(attrs)
    IN  IF AnyRaises(attrs, {"name", "id", "placeholder", "required"})
           \/ validation_rules = Raises
        THEN Raises
        ELSE LET field_name ==
                     Or(Or(attrs["name"], attrs["id"]), Str(<<>>)).v
                 field_id == Or(attrs["id"], Str(<<>>)).v
                 label == label_by_id(labels, field_id)
                 placeholder == Or(attrs["placeholder"], Str(<<>>)).v
                 required == Truthy(attrs["required"])
                 options == extract_dropdown_options(ctl.options)
             IN  FormField(field_name, STR_select, label, placeholder,
                           required, validation_rules.v, List(options),
                           css_selector_of(field_id))

\* Body of the `for textarea_elem in textarea_elements` try block.
process_textarea(ctl, labels) ==
    LET attrs == ctl.attrs
        validation_rules == extract_field_validation(attrs)
    IN  IF AnyRaises(attrs, {"name", "id", "placeholder", "required"})
           \/ validation_rules = Raises
        THEN Raises
        ELSE LET field_name ==
                     Or(Or(attrs["name"], attrs["id"]), Str(<<>>)).v
                 field_id == Or(attrs["id"], Str(<<>>)).v
                 label == label_by_id(labels, field_id)
                 placeholder == Or(attrs["placeholder"], Str(<<>>)).v
                 required == Truthy(attrs["required"])
             IN  FormField(field_name, STR_textarea, label, placeholder,
                           required, validation_rules.v, None,
                           css_selector_of(field_id))

\* The loop body that the control's tag selects.
process_control(ctl, labels) ==
    IF ctl.cat = "input" THEN process_input(ctl, labels)
    ELSE IF ctl.cat = "select" THEN process_select(ctl, labels)
    ELSE process_textarea(ctl, labels)

RECURSIVE results_until_raise(_)
results_until_raise(results) ==
    IF results = <<>> \/ Head(results).field = Raises THEN <<>>
    ELSE <<Head(results)>> \o results_until_raise(Tail(results))

\* Variant: the except clause leaves the loop (break) instead of going on to
\* the next control (continue).
process_all_break(ctls, labels, dom, tag) ==
    LET results == [i \in 1..Len(ctls) |->
                       [field |-> process_control(ctls[i], labels),
                        elem |-> <<dom, tag, i>>]]
    IN  results_until_raise(results)

\* One of the three for loops: the controls in order, raising ones skipped.
\* Each entry pairs the FormField with the DOM element it came from
\* (page number, tag, position), which the program itself does not keep.
process_all(ctls, labels, dom, tag) ==
    LET results == [i \in 1..Len(ctls) |->
                       [field |-> process_control(ctls[i], labels),
                        elem |-> <<dom, tag, i>>]]
    IN  SelectSeq(results, LAMBDA r : r.field # Raises)

\* extract_form_fields once the wait and the three find_elements returned:
\* inputs, then selects, then textareas.
extract_form_fields(page, dom) ==
    process_all(page.inputs, page.labels, dom, "input")
    \o process_all(page.selects, page.labels, dom, "select")
    \o process_all(page.textareas, page.labels, dom, "textarea")

FieldsOf(entries) == [i \in 1..Len(entries) |-> entries[i].field]
ElemsOf(entries) == [i \in 1..Len(entries) |-> entries[i].elem]

\* ------------------------------------------------------ extract_step_info
RECURSIVE first_indicator(_, _)
\* The step_indicators loop: the stripped text of the first indicator that
\* is found and readable, else the title it started with.
first_indicator(lookups, title) ==
    IF lookups = <<>> THEN title
    ELSE IF Head(lookups) = Raises THEN first_indicator(Tail(lookups), title)
    ELSE strip(Head(lookups).v)

RECURSIVE all_rules(_)
all_rules(fields) ==
    IF fields = <<>> THEN {}
    ELSE {Head(fields).validation_rules[i] :
              i \in 1..Len(Head(fields).validation_rules)}
         \cup all_rules(Tail(fields))

\* Variant: the except branch gives the failed step an empty title.
failed_step_untitled(step_number) ==
    FormStep(step_number, <<>>, <<>>, <<>>, {})

\* The except branch of extract_step_info.
failed_step(step_number) ==
    FormStep(step_number, STR_Step_prefix \o IntToStr(step_number), <<>>,
             <<>>, {})

\* Variant: the form wait's timeout is swallowed and extraction goes on.
extract_step_info_nowait(page, dom, step_number, wait_ok, find_ok) ==
    IF ~find_ok
    THEN [step |-> failed_step(step_number), elems |-> <<>>]
    ELSE LET title == first_indicator(page.indicators[step_number],
                          STR_Step_prefix \o IntToStr(step_number))
             entries == extract_form_fields(page, dom)
             fields == FieldsOf(entries)
         IN  [step |-> FormStep(step_number, title, <<>>, fields,
                                all_rules(fields)),
              elems |-> ElemsOf(entries)]

\* extract_step_info(step_number) on `page`.  wait_ok: the WebDriverWait for
\* a form returned; find_ok: the find_elements calls returned.  Yields the
\* step and the DOM elements behind its fields.
extract_step_info(page, dom, step_number, wait_ok, find_ok) ==
    IF ~wait_ok \/ ~find_ok
    THEN [step |-> failed_step(step_number), elems |-> <<>>]
    ELSE LET title == first_indicator(page.indicators[step_number],
                          STR_Step_prefix \o IntToStr(step_number))
             entries == extract_form_fields(page, dom)
             fields == FieldsOf(entries)
         IN  [step |-> FormStep(step_number, title, <<>>, fields,
                                all_rules(fields)),
              elems |-> ElemsOf(entries)]

\* -------------------------------------------------- scrape_form_structure
STR_base_url ==
    <<"h", "t", "t", "p", "s", ":", "/", "/", "u", "d", "y", "a", "m", "r",
      "e", "g", "i", "s", "t", "r", "a", "t", "i", "o", "n", ".", "g", "o",
      "v", ".", "i", "n", "/", "U", "d", "y", "a", "m", "R", "e", "g", "i",
      "s", "t", "r", "a", "t", "i", "o", "n", ".", "a", "s", "p", "x">>
STR_err == <<"e", "r", "r">>

\* form_metadata; total_steps is the literal 2.
form_metadata_of(title, now) ==
    [url |-> STR_base_url, title |-> title, scraped_at |-> now,
     total_steps |-> 2]

\* The step2 built in the `except` around the navigation to step 2.
step2_placeholder == FormStep(2, STR_Step2_PAN, <<>>, <<>>, {})

\* form_structure = {"metadata": ..., "steps": [asdict(step1), asdict(step2)]}
form_structure(metadata, s1, s2) ==
    [metadata |-> metadata, steps |-> <<s1, s2>>]

\* return {"error": str(e)}
error_result(msg) == [error |-> msg]

\* "error" in form_data
has_error(form_data) == "error" \in DOMAIN form_data

\* Variant: main saves whatever came back.
should_save_always(form_data) == TRUE

\* main's test before save_results: "error" not in form_data
should_save(form_data) == ~has_error(form_data)

\* ------------------------------------------------------------ environment
BSeq(S, n) == UNION {[1..m -> S] : m \in 0..n}

Attrs(type, name, id, placeholder, required, pattern, maxlength, minlength) ==
    [a \in AttrNames |->
        CASE a = "type" -> type
          [] a = "name" -> name
          [] a = "id" -> id
          [] a = "placeholder" -> placeholder
          [] a = "required" -> required
          [] a = "pattern" -> pattern
          [] a = "maxlength" -> maxlength
          [] a = "minlength" -> minlength]

Control(cat, attrs, parent, options) ==
    [cat |-> cat, attrs |-> attrs, parent |-> parent, options |-> options]

\* Controls the modelled site is made of.
InputPool ==
    {Control("input",
             Attrs(Str(STR_text), Str(<<"a">>), Str(<<"a">>), None,
                   Str(<<"1">>), Str(<<"9">>), Str(<<"1", "2">>), None),
             Str(<<" ", "P">>), None),
     Control("input",
             Attrs(Str(STR_tel), Raises, Str(<<"b">>), None, None, None,
                   None, None),
             Raises, None)}

SelectPool ==
    {Control("select",
             Attrs(None, Str(<<"s">>), None, None, None, None, None, None),
             Str(<<"Q">>),
             List(<<[value |-> Str(<<"v">>), text |-> Str(<<"T", " ">>)],
                    [value |-> Str(<<>>), text |-> Str(<<"U">>)]>>))}

TextareaPool ==
    {Control("textarea",
             Attrs(None, None, Str(<<"c">>), Str(<<"h">>), None, None,
                   None, Str(<<"2">>)),
             Str(<<"R">>), None)}

IndicatorChoices ==
    {<<Raises, Raises, Raises, Raises>>,
     <<Raises, Raises, Str(<<" ", "O", "T", "P">>), Str(<<"x">>)>>}

Page(title, inputs, selects, textareas, labels, next_buttons, ind) ==
    [title |-> title, inputs |-> inputs, selects |-> selects,
     textareas |-> textareas, labels |-> labels,
     next_buttons |-> next_buttons, indicators |-> ind]

LandingPages ==
    {Page(Str(<<"U">>), i, s, t,
          <<[for |-> <<"a">>, text |-> Str(<<"A", " ">>)]>>, n,
          <<ind, ind>>) :
        i \in BSeq(InputPool, MaxControls),
        s \in BSeq(SelectPool, MaxControls),
        t \in BSeq(TextareaPool, MaxControls),
        n \in 0..1,
        ind \in IndicatorChoices}

SecondPages ==
    {Page(Str(<<"U">>), i, <<>>, <<>>, <<>>, 0,
          <<<<Raises, Raises, Raises, Raises>>,
            <<Str(<<"P", "A", "N">>), Raises, Raises, Raises>>>>) :
        i \in BSeq(InputPool, 1)}

Timestamps == {<<"t", "0">>, <<"t", "1">>}

\* ------------------------------------------------------------------ state
VARIABLES
    pc,             \* where main() is
    site,           \* the remote form: <<landing page, second page>>
    dom,            \* page the driver shows: 0 none, 1 landing, 2 second
    scraper,        \* main's local `scraper` is bound
    driver,         \* scraper.driver: None or Str of the session
    form_metadata,  \* local of scrape_form_structure
    step1,          \* local of scrape_form_structure
    step2,          \* local of scrape_form_structure
    elems1,         \* DOM elements behind step1.fields
    elems2,         \* DOM elements behind step2.fields
    form_data,      \* main's local: what scrape_form_structure returned
    file,           \* udyam_form_structure.json: None, "partial", a document
    exit_status,    \* exit status of the process, None while it runs
    log,            \* what has been called or has happened so far
    fn_pc,          \* a single function applied to fn_in
    fn_in,
    fn_out

vars ==
    <<pc, site, dom, scraper, driver, form_metadata, step1, step2, elems1,
      elems2, form_data, file, exit_status, log, fn_pc, fn_in, fn_out>>

run_vars ==
    <<pc, site, dom, scraper, driver, form_metadata, step1, step2, elems1,
      elems2, form_data, file, exit_status, log>>

fn_vars == <<fn_pc, fn_in, fn_out>>

Session == Str(<<"w", "d">>)

LogInit ==
    [get_raised |-> FALSE, wait1_timeout |-> FALSE, extract_calls |-> 0,
     save_calls |-> 0, close_calls |-> 0, quit_calls |-> 0,
     acquired |-> FALSE, written |-> FALSE, fail1 |-> "none",
     fail2 |-> "none"]

\* How an extract_step_info call ended: the form wait timed out ("wait"),
\* a later call of the extraction threw ("extract"), or neither.
FailMode(wait_ok, find_ok) ==
    IF ~wait_ok THEN "wait" ELSE IF ~find_ok THEN "extract" ELSE "none"

RunIdle ==
    /\ pc = "idle"
    /\ site = <<>>
    /\ dom = 0
    /\ scraper = FALSE
    /\ driver = None
    /\ form_metadata = None
    /\ step1 = None
    /\ step2 = None
    /\ elems1 = <<>>
    /\ elems2 = <<>>
    /\ form_data = None
    /\ file = None
    /\ exit_status = None
    /\ log = LogInit

FnIdle ==
    /\ fn_pc = "idle"
    /\ fn_in = None
    /\ fn_out = None

\* The state when main() is entered, against some site.
Init ==
    /\ pc = "main"
    /\ site \in {<<l, s>> : l \in LandingPages, s \in SecondPages}
    /\ dom = 0
    /\ scraper = FALSE
    /\ driver = None
    /\ form_metadata = None
    /\ step1 = None
    /\ step2 = None
    /\ elems1 = <<>>
    /\ elems2 = <<>>
    /\ form_data = None
    /\ file = None
    /\ exit_status = None
    /\ log = LogInit
    /\ FnIdle

\* scraper = UdyamScraper(headless=False); scraper.setup_driver()
SetupDriver ==
    /\ pc = "main"
    /\ scraper' = TRUE
    /\ \E ok \in BOOLEAN :
        IF ok
        THEN /\ driver' = Session
             /\ log' = [log EXCEPT !.acquired = TRUE]
             /\ pc' = "get"
        ELSE /\ driver' = driver
             /\ log' = log
             /\ pc' = "finally"
    /\ UNCHANGED <<site, dom, form_metadata, step1, step2, elems1, elems2,
                   form_data, file, exit_status, fn_pc, fn_in, fn_out>>

\* self.driver.get(self.base_url)
Navigate ==
    /\ pc = "get"
    /\ \E ok \in BOOLEAN :
        IF ok
        THEN /\ dom' = 1
             /\ pc' = "metadata"
             /\ UNCHANGED <<form_data, log>>
        ELSE /\ form_data' = error_result(STR_err)
             /\ log' = [log EXCEPT !.get_raised = TRUE]
             /\ pc' = "returned"
             /\ dom' = dom
    /\ UNCHANGED <<site, scraper, driver, form_metadata, step1, step2,
                   elems1, elems2, file, exit_status, fn_pc, fn_in, fn_out>>

\* form_metadata = {...}; reading self.driver.title may throw
CaptureMetadata ==
    /\ pc = "metadata"
    /\ \E ok \in BOOLEAN, now \in Timestamps :
        IF ok
        THEN /\ form_metadata' = form_metadata_of(site[dom].title.v, now)
             /\ pc' = "step1"
             /\ form_data' = form_data
        ELSE /\ form_data' = error_result(STR_err)
             /\ pc' = "returned"
             /\ form_metadata' = form_metadata
    /\ UNCHANGED <<site, dom, scraper, driver, step1, step2, elems1, elems2,
                   file, exit_status, log, fn_pc, fn_in, fn_out>>

\* Variant: extract_step_info without its try/except, so a failure inside
\* step 1 reaches the handler of scrape_form_structure.
ExtractStep1_uncaught ==
    /\ pc = "step1"
    /\ \E wait_ok \in BOOLEAN, find_ok \in BOOLEAN :
        LET r == extract_step_info(site[dom], dom, 1, wait_ok, find_ok) IN
        /\ log' = [log EXCEPT !.extract_calls = @ + 1,
                              !.wait1_timeout = ~wait_ok,
                              !.fail1 = FailMode(wait_ok, find_ok)]
        /\ IF wait_ok /\ find_ok
           THEN /\ step1' = r.step
                /\ elems1' = r.elems
                /\ pc' = "find_next"
                /\ form_data' = form_data
           ELSE /\ form_data' = error_result(STR_err)
                /\ pc' = "returned"
                /\ UNCHANGED <<step1, elems1>>
    /\ UNCHANGED <<site, dom, scraper, driver, form_metadata, step2, elems2,
                   file, exit_status, fn_pc, fn_in, fn_out>>

\* step1 = self.extract_step_info(1)
ExtractStep1 ==
    /\ pc = "step1"
    /\ \E wait_ok \in BOOLEAN, find_ok \in BOOLEAN :
        LET r == extract_step_info(site[dom], dom, 1, wait_ok, find_ok) IN
        /\ step1' = r.step
        /\ elems1' = r.elems
        /\ log' = [log EXCEPT !.extract_calls = @ + 1,
                              !.wait1_timeout = ~wait_ok,
                              !.fail1 = FailMode(wait_ok, find_ok)]
    /\ pc' = "find_next"
    /\ UNCHANGED <<site, dom, scraper, driver, form_metadata, step2, elems2,
                   form_data, file, exit_status, fn_pc, fn_in, fn_out>>

\* next_buttons = self.driver.find_elements(By.XPATH, ...); if next_buttons:
FindNext ==
    /\ pc = "find_next"
    /\ \E ok \in BOOLEAN :
        IF ~ok
        THEN /\ step2' = step2_placeholder
             /\ log' = [log EXCEPT !.fail2 = "advance"]
             /\ pc' = "compile"
        ELSE /\ step2' = step2
             /\ log' = log
             /\ pc' = IF site[dom].next_buttons > 0 THEN "click" ELSE "step2"
    /\ UNCHANGED <<site, dom, scraper, driver, form_metadata, step1, elems1,
                   elems2, form_data, file, exit_status, fn_pc, fn_in,
                   fn_out>>

\* next_buttons[0].click(); the site answers with the second page or, as
\* when it rejects the submission, keeps showing the same one.
ClickNext ==
    /\ pc = "click"
    /\ \E outcome \in {"raises", "navigated", "stayed"} :
        /\ dom' = IF outcome = "navigated" THEN 2 ELSE dom
        /\ step2' = IF outcome = "raises" THEN step2_placeholder ELSE step2
        /\ pc' = IF outcome = "raises" THEN "compile" ELSE "step2"
        /\ log' = IF outcome = "raises"
                  THEN [log EXCEPT !.fail2 = "advance"] ELSE log
    /\ UNCHANGED <<site, scraper, driver, form_metadata, step1, elems1,
                   elems2, form_data, file, exit_status, fn_pc, fn_in,
                   fn_out>>

\* step2 = self.extract_step_info(2), on either branch of `if next_buttons`
ExtractStep2 ==
    /\ pc = "step2"
    /\ \E wait_ok \in BOOLEAN, find_ok \in BOOLEAN :
        LET r == extract_step_info(site[dom], dom, 2, wait_ok, find_ok) IN
        /\ step2' = r.step
        /\ elems2' = r.elems
        /\ log' = [log EXCEPT !.extract_calls = @ + 1,
                              !.fail2 = FailMode(wait_ok, find_ok)]
    /\ pc' = "compile"
    /\ UNCHANGED <<site, dom, scraper, driver, form_metadata, step1, elems1,
                   form_data, file, exit_status, fn_pc, fn_in, fn_out>>

\* form_structure = {...}; return form_structure
Compile ==
    /\ pc = "compile"
    /\ form_data' = form_structure(form_metadata, step1, step2)
    /\ pc' = "returned"
    /\ UNCHANGED <<site, dom, scraper, driver, form_metadata, step1, step2,
                   elems1, elems2, file, exit_status, log, fn_pc, fn_in,
                   fn_out>>

\* main: if "error" not in form_data: scraper.save_results(form_data).
\* save_results swallows its own failure: open() failing leaves no file,
\* json.dump failing leaves a truncated one.
MainSave ==
    /\ pc = "returned"
    /\ IF should_save(form_data)
       THEN \E outcome \in {"ok", "open_fails", "dump_fails"} :
               /\ file' = CASE outcome = "ok" -> form_data
                            [] outcome = "open_fails" -> file
                            [] outcome = "dump_fails" -> Str(<<"{">>)
               /\ log' = [log EXCEPT !.save_calls = @ + 1,
                                     !.written = (outcome = "ok")]
       ELSE UNCHANGED <<file, log>>
    /\ pc' = "finally"
    /\ UNCHANGED <<site, dom, scraper, driver, form_metadata, step1, step2,
                   elems1, elems2, form_data, exit_status, fn_pc, fn_in,
                   fn_out>>

\* close(): if self.driver: self.driver.quit()
close(d, l) ==
    [driver |-> d,
     log |-> IF d # None
             THEN [l EXCEPT !.close_calls = @ + 1, !.quit_calls = @ + 1]
             ELSE [l EXCEPT !.close_calls = @ + 1]]

\* finally: if scraper: scraper.close(); then main returns and, with no
\* sys.exit anywhere, the interpreter exits 0 unless quit() itself threw.
MainFinally ==
    /\ pc = "finally"
    /\ \E quit_ok \in BOOLEAN :
        IF scraper
        THEN LET c == close(driver, log) IN
             /\ driver' = c.driver
             /\ log' = c.log
             /\ exit_status' = IF driver # None /\ ~quit_ok THEN 1 ELSE 0
        ELSE /\ UNCHANGED <<driver, log>>
             /\ exit_status' = 0
    /\ pc' = "done"
    /\ UNCHANGED <<site, dom, scraper, form_metadata, step1, step2, elems1,
                   elems2, form_data, file, fn_pc, fn_in, fn_out>>

Next ==
    \/ SetupDriver
    \/ Navigate
    \/ CaptureMetadata
    \/ ExtractStep1
    \/ FindNext
    \/ ClickNext
    \/ ExtractStep2
    \/ Compile
    \/ MainSave
    \/ MainFinally

Spec == Init /\ [][Next]_vars

\* ------------------------------------------- the extractors on their own
\* Attribute snapshots handed to extract_field_validation.
ValidationInputs ==
    {Attrs(type, None, None, None, required, pattern, maxlength, minlength) :
        type \in {None, Str(<<>>), Str(STR_text), Str(STR_email),
                  Str(STR_tel)},
        required \in {None, Str(<<>>), Str(<<"1">>), Raises},
        pattern \in {None, Str(<<>>), Str(<<"9">>), Raises},
        maxlength \in {None, Str(<<>>), Str(<<"5">>)},
        minlength \in {None, Str(<<>>), Str(<<"2">>)}}

InitValidation ==
    /\ RunIdle
    /\ fn_pc = "call_validation"
    /\ fn_in \in ValidationInputs
    /\ fn_out = None

\* rules = scraper.extract_field_validation(element)
ApplyValidation ==
    /\ fn_pc = "call_validation"
    /\ fn_out' = extract_field_validation(fn_in)
    /\ fn_pc' = "ret_validation"
    /\ UNCHANGED <<fn_in, run_vars>>

SpecValidation == InitValidation /\ [][ApplyValidation]_vars

\* Option elements of a select.
OptionPool ==
    {[value |-> v, text |-> t] :
        v \in {None, Str(<<>>), Str(<<"v">>), Str(<<"w">>)},
        t \in {Str(<<>>), Str(<<" ">>), Str(<<"T">>), Str(<<" ", "T">>),
              Str(<<"\r", "T", "U+00A0">>)}}
    \cup {[value |-> Raises, text |-> Str(<<"T">>)]}

OptionInputs == {Raises} \cup {List(o) : o \in BSeq(OptionPool, MaxOptions)}

InitOptions ==
    /\ RunIdle
    /\ fn_pc = "call_options"
    /\ fn_in \in OptionInputs
    /\ fn_out = None

\* options = scraper.extract_dropdown_options(select)
ApplyOptions ==
    /\ fn_pc = "call_options"
    /\ fn_out' = extract_dropdown_options(fn_in)
    /\ fn_pc' = "ret_options"
    /\ UNCHANGED <<fn_in, run_vars>>

SpecOptions == InitOptions /\ [][ApplyOptions]_vars

\* One control and the labels of its page.
LabelPool ==
    {[for |-> <<"i">>, text |-> Str(<<"L", " ">>)],
     [for |-> <<"i">>, text |-> Str(<<" ">>)],
     [for |-> <<"i">>, text |-> Raises],
     [for |-> <<"j">>, text |-> Str(<<"M">>)]}

FieldAttrs ==
    {Attrs(type, name, id, placeholder, required, None, None, None) :
        type \in {None, Str(<<>>), Str(STR_email), Raises},
        name \in {None, Str(<<>>), Str(<<"n">>)},
        id \in {None, Str(<<>>), Str(<<"i">>)},
        placeholder \in {None, Str(<<"h">>)},
        required \in {None, Str(<<"1">>)}}

FieldInputs ==
    {[ctl |-> Control(c[1], a, parent, c[2]), labels |-> labels] :
        c \in {<<"input", None>>, <<"textarea", None>>,
               <<"select", Raises>>, <<"select", List(<<>>)>>,
               <<"select",
                 List(<<[value |-> Str(<<"v">>), text |-> Str(<<"T">>)]>>)>>},
        a \in FieldAttrs,
        parent \in {Raises, Str(<<>>), Str(<<" ", "P">>)},
        labels \in BSeq(LabelPool, MaxLabels)}

InitFields ==
    /\ RunIdle
    /\ fn_pc = "call_field"
    /\ fn_in \in FieldInputs
    /\ fn_out = None

\* One pass of a for loop of extract_form_fields over one control.
ApplyField ==
    /\ fn_pc = "call_field"
    /\ fn_out' = process_control(fn_in.ctl, fn_in.labels)
    /\ fn_pc' = "ret_field"
    /\ UNCHANGED <<fn_in, run_vars>>

SpecFields == InitFields /\ [][ApplyField]_vars

\* ================================================================ claims
Returned == pc \in {"returned", "finally", "done"}

Range(q) == {q[i] : i \in 1..Len(q)}

HasPrefix(d, pre) == Len(d) >= Len(pre) /\ SubSeq(d, 1, Len(pre)) = pre

\* C1: once driver.get and the metadata capture have succeeded, whatever
\* fails afterwards, scrape_form_structure returns a document with the
\* metadata block and exactly 2 steps (metadata.total_steps), numbered 1
\* then 2.
C1_TwoStepsOnceMetadataCaptured ==
    (Returned /\ form_metadata # None) =>
        /\ ~has_error(form_data)
        /\ DOMAIN form_data = {"metadata", "steps"}
        /\ form_data.metadata = form_metadata
        /\ Len(form_data.steps) = 2
        /\ Len(form_data.steps) = form_data.metadata.total_steps
        /\ form_data.steps[1].step_number = 1
        /\ form_data.steps[2].step_number = 2

\* A run where step 1's wait timed out and advancing to step 2 threw, and
\* the document still has its two steps.
C1_Witness ==
    /\ pc = "done"
    /\ form_metadata # None
    /\ log.wait1_timeout
    /\ step2 = step2_placeholder
    /\ ~has_error(form_data)
    /\ Len(form_data.steps) = 2

\* C2: if driver.get raises, the result is a document with only an `error`
\* string, no step extraction is attempted, save_results is never called and
\* no schema file, partial or not, is written.
C2_NavigationFailureIsRunFatal ==
    log.get_raised =>
        /\ form_data # None
        /\ DOMAIN form_data = {"error"}
        /\ form_data.error = STR_err
        /\ log.extract_calls = 0
        /\ step1 = None /\ step2 = None
        /\ log.save_calls = 0
        /\ file = None

\* main has returned after a run whose driver.get raised.
C2_Witness ==
    /\ pc = "done"
    /\ log.get_raised
    /\ log.acquired
    /\ has_error(form_data)

\* C3 as stated: if the form wait of step 1 times out, scrape_form_structure
\* yields an error result instead of a schema with steps.
C3_Original ==
    (Returned /\ log.wait1_timeout) => has_error(form_data)

\* C3 amended: if the form wait of step 1 times out, the run does not
\* short-circuit: scrape_form_structure yields a schema with the metadata and
\* two steps, step 1 being the minimal record (title "Step 1", empty
\* description, no fields, no rules).
C3_WaitTimeoutYieldsFailedStep ==
    (Returned /\ log.wait1_timeout) =>
        /\ ~has_error(form_data)
        /\ form_data.metadata = form_metadata
        /\ Len(form_data.steps) = 2
        /\ form_data.steps[1].step_number = 1
        /\ form_data.steps[1].title = <<"S", "t", "e", "p", " ", "1">>
        /\ form_data.steps[1].description = <<>>
        /\ form_data.steps[1].fields = <<>>
        /\ form_data.steps[1].validation_rules = {}

\* The wait of step 1 timed out on a landing page that does have a control
\* the scraper could have extracted, and step 2 went on to find fields.
C3_Witness ==
    /\ pc = "done"
    /\ log.wait1_timeout
    /\ \E i \in 1..Len(site[1].inputs) :
           process_control(site[1].inputs[i], site[1].labels) # Raises
    /\ ~has_error(form_data)
    /\ form_data.steps[2].fields # <<>>

\* C4 as stated: main ends with exit status 0 exactly when a schema was
\* successfully written, and non-zero when scrape_form_structure returned an
\* error result.
C4_Original ==
    (pc = "done" /\ form_data # None) =>
        /\ (exit_status = 0) <=> log.written
        /\ has_error(form_data) => exit_status # 0

\* C5 as stated: on every exit path on which a driver session was acquired,
\* by the time main returns close() has run, quit was called exactly once
\* and scraper.driver is None.
C5_Original ==
    (pc = "done" /\ log.acquired) =>
        /\ log.close_calls = 1
        /\ log.quit_calls = 1
        /\ driver = None

\* C6 as stated: no control is recorded both in step 1's fields and in
\* step 2's fields, on any branch.
C6_Original ==
    (Returned /\ form_data # None /\ ~has_error(form_data)) =>
        Range(elems1) \cap Range(elems2) = {}

\* Position of a descriptor in the fixed order; 0 for anything else.
DescriptorRank(d) ==
    IF d = STR_required THEN 1
    ELSE IF HasPrefix(d, STR_pattern_prefix) THEN 2
    ELSE IF HasPrefix(d, STR_max_length_prefix) THEN 3
    ELSE IF HasPrefix(d, STR_min_length_prefix) THEN 4
    ELSE IF d \in {STR_email_format, STR_phone_format} THEN 5
    ELSE 0

\* C7: for every attribute snapshot, extract_field_validation returns, in
\* the order required, pattern, max_length, min_length, type tag and each at
\* most once: `required` iff required is non-empty, `pattern: P` iff pattern
\* is a non-empty P, `max_length: M` iff maxlength is non-empty,
\* `min_length: N` iff minlength is non-empty, `email_format` iff type is
\* email, `phone_format` iff type is tel (whether or not a pattern is there),
\* and nothing else.
C7_ValidationDescriptors ==
    (fn_pc = "ret_validation" /\ fn_out # Raises) =>
        LET a == fn_in
            r == fn_out.v
            R == Range(r)
        IN  /\ \A i, j \in 1..Len(r) :
                   i < j => DescriptorRank(r[i]) < DescriptorRank(r[j])
            /\ \A d \in R : DescriptorRank(d) \in 1..5
            /\ (STR_required \in R) <=> Truthy(a["required"])
            /\ \A d \in R :
                   /\ DescriptorRank(d) = 2 =>
                          /\ Truthy(a["pattern"])
                          /\ d = STR_pattern_prefix \o a["pattern"].v
                   /\ DescriptorRank(d) = 3 =>
                          /\ Truthy(a["maxlength"])
                          /\ d = STR_max_length_prefix \o a["maxlength"].v
                   /\ DescriptorRank(d) = 4 =>
                          /\ Truthy(a["minlength"])
                          /\ d = STR_min_length_prefix \o a["minlength"].v
            /\ Truthy(a["pattern"]) => \E d \in R : DescriptorRank(d) = 2
            /\ Truthy(a["maxlength"]) => \E d \in R : DescriptorRank(d) = 3
            /\ Truthy(a["minlength"]) => \E d \in R : DescriptorRank(d) = 4
            /\ (STR_email_format \in R) <=> (a["type"] = Str(STR_email))
            /\ (STR_phone_format \in R) <=> (a["type"] = Str(STR_tel))

\* A required email control with pattern, maxlength and minlength: all five
\* descriptors come back.
C7_Witness ==
    /\ fn_pc = "ret_validation"
    /\ fn_out # Raises
    /\ Truthy(fn_in["required"])
    /\ Truthy(fn_in["pattern"])
    /\ fn_in["type"] = Str(STR_email)
    /\ Len(fn_out.v) = 5
    /\ fn_out.v[2] = <<"p", "a", "t", "t", "e", "r", "n", ":", " ", "9">>
    /\ fn_out.v[5] = STR_email_format

\* Every read of the option list returns.
OptionsReadable(sel) ==
    /\ sel # Raises
    /\ \A i \in 1..Len(sel.v) :
           sel.v[i].value # Raises /\ sel.v[i].text # Raises

\* C8 as stated: of N options, the K with a non-empty value and a non-empty
\* display text come back, in order, each as `value: text`.
C8_Original ==
    (fn_pc = "ret_options" /\ OptionsReadable(fn_in)) =>
        LET kept == SelectSeq(fn_in.v,
                        LAMBDA o : Truthy(o.value) /\ o.text.v # <<>>)
        IN  /\ Len(fn_out) = Len(kept)
            /\ \A i \in 1..Len(kept) :
                   fn_out[i] = kept[i].value.v \o <<":", " ">> \o kept[i].text.v

\* C8 amended: of N options, the K with a non-empty value and a display text
\* that is non-empty after trimming come back, in order, each as
\* `value: text` with the text trimmed; the others are dropped.
C8_OptionsKeptInOrder ==
    (fn_pc = "ret_options" /\ OptionsReadable(fn_in)) =>
        LET kept == SelectSeq(fn_in.v,
                        LAMBDA o : Truthy(o.value) /\ strip(o.text.v) # <<>>)
        IN  /\ Len(fn_out) = Len(kept)
            /\ \A i \in 1..Len(kept) :
                   fn_out[i] =
                       kept[i].value.v \o <<":", " ">> \o strip(kept[i].text.v)

\* Three options, the middle one with a blank text: two strings come back,
\* the second with its text trimmed.
C8_Witness ==
    /\ fn_pc = "ret_options"
    /\ OptionsReadable(fn_in)
    /\ Len(fn_in.v) = 3
    /\ fn_in.v[2] = [value |-> Str(<<"v">>), text |-> Str(<<" ">>)]
    /\ fn_out = << <<"v", ":", " ", "T">>, <<"w", ":", " ", "T">> >>
    /\ fn_in.v[3].text = Str(<<" ", "T">>)

\* C9 as stated: for a control of any category the label is the trimmed text
\* of the label whose `for` is the control's identifier when that lookup
\* gives one, otherwise the trimmed text of the control's parent, and empty
\* only when both lookups fail.
C9_Original ==
    (fn_pc = "ret_field" /\ fn_out # Raises) =>
        LET a == fn_in.ctl.attrs
            ident == IF Truthy(a["id"]) THEN a["id"].v ELSE <<>>
        IN  fn_out.label =
                label_by_parent(fn_in.ctl, label_by_id(fn_in.labels, ident))

\* C10: a materialized Field has name = declared name, else identifier, else
\* empty; selector = `#` + identifier when there is one, else empty; kind =
\* the type attribute (default `text`) for inputs, `select` for selects
\* whatever their type attribute, `textarea` for textareas; and options only
\* on selects.
C10_FieldShape ==
    (fn_pc = "ret_field" /\ fn_out # Raises) =>
        LET a == fn_in.ctl.attrs
            cat == fn_in.ctl.cat
        IN  /\ fn_out.name =
                   (IF Truthy(a["name"]) THEN a["name"].v
                    ELSE IF Truthy(a["id"]) THEN a["id"].v
                    ELSE <<>>)
            /\ fn_out.css_selector =
                   (IF Truthy(a["id"]) THEN <<"#">> \o a["id"].v ELSE <<>>)
            /\ cat = "input" =>
                   fn_out.type = (IF Truthy(a["type"]) THEN a["type"].v
                                  ELSE <<"t", "e", "x", "t">>)
            /\ cat = "select" => fn_out.type = <<"s", "e", "l", "e", "c", "t">>
            /\ cat = "textarea" =>
                   fn_out.type = <<"t", "e", "x", "t", "a", "r", "e", "a">>
            /\ (fn_out.options # None) <=> (cat = "select")

\* A select that declares type=email and has an id but no name: its Field is
\* named by the id, selected by #id, of kind select, with its options.
C10_Witness ==
    /\ fn_pc = "ret_field"
    /\ fn_out # Raises
    /\ fn_in.ctl.cat = "select"
    /\ fn_in.ctl.attrs["type"] = Str(STR_email)
    /\ ~Truthy(fn_in.ctl.attrs["name"])
    /\ fn_out.name = <<"i">>
    /\ fn_out.css_selector = <<"#", "i">>
    /\ fn_out.type = STR_select
    /\ fn_out.options = List(<< <<"v", ":", " ", "T">> >>)

\* The snapshot with every failed read taken as an absent attribute.
FailedReadsAbsent(attrs) ==
    [a \in DOMAIN attrs |-> IF attrs[a] = Raises THEN None ELSE attrs[a]]

\* C11 as stated: when a read made only by the validation inference fails
\* (here the type attribute of a select or textarea), the attribute counts
\* as absent: the control still yields a Field, whose rules are those of the
\* remaining attributes.
C11_Original ==
    (/\ fn_pc = "ret_field"
     /\ fn_in.ctl.cat \in {"select", "textarea"}
     /\ ~AnyRaises(fn_in.ctl.attrs, AttrNames \ ValidationAttrs)
     /\ fn_in.ctl.attrs["required"] # Raises) =>
        /\ fn_out # Raises
        /\ fn_out.validation_rules =
               validation_rules_of(FailedReadsAbsent(fn_in.ctl.attrs))

\* ------------------------------------------------ one step on its own
\* Selects and textareas as on the site, and ones whose name read throws.
StepSelectPool ==
    SelectPool
    \cup {Control("select",
                  Attrs(None, Raises, Str(<<"d">>), None, None, None, None,
                        None),
                  Raises, List(<<>>))}

StepTextareaPool ==
    TextareaPool
    \cup {Control("textarea",
                  Attrs(None, Raises, None, None, None, None, None, None),
                  Raises, None)}

StepPages ==
    {Page(Str(<<"U">>), i, s, t,
          <<[for |-> <<"a">>, text |-> Str(<<"A", " ">>)]>>, 0,
          <<ind, ind>>) :
        i \in BSeq(InputPool, MaxControls),
        s \in BSeq(StepSelectPool, MaxControls),
        t \in BSeq(StepTextareaPool, MaxControls),
        ind \in IndicatorChoices}

InitStep ==
    /\ RunIdle
    /\ fn_pc = "call_step"
    /\ fn_in \in {[page |-> p, wait_ok |-> w, find_ok |-> f] :
                     p \in StepPages, w \in BOOLEAN, f \in BOOLEAN}
    /\ fn_out = None

\* step = scraper.extract_step_info(1) on the page the driver shows
ApplyStep ==
    /\ fn_pc = "call_step"
    /\ fn_out' = extract_step_info(fn_in.page, 1, 1, fn_in.wait_ok,
                                   fn_in.find_ok)
    /\ fn_pc' = "ret_step"
    /\ UNCHANGED <<fn_in, run_vars>>

SpecStep == InitStep /\ [][ApplyStep]_vars

\* The controls of a page by tag, and the order the loops visit the tags in.
ControlsOf(page, tag) ==
    IF tag = "input" THEN page.inputs
    ELSE IF tag = "select" THEN page.selects
    ELSE page.textareas

TagRank(tag) ==
    IF tag = "input" THEN 1 ELSE IF tag = "select" THEN 2 ELSE 3

\* e comes before f in discovery order.
Before(e, f) ==
    \/ TagRank(e[2]) < TagRank(f[2])
    \/ e[2] = f[2] /\ e[3] < f[3]

\* C12: when the step's wait and element queries succeed, a control whose
\* extraction raises is the only thing missing: every other control, of any
\* of the three categories, before or after it, yields its Field, the Fields
\* keep discovery order (inputs, selects, textareas), and the step is a
\* normal step rather than the failed record.
C12_OnlyRaisingControlsSkipped ==
    (fn_pc = "ret_step" /\ fn_in.wait_ok /\ fn_in.find_ok) =>
        LET page == fn_in.page
            fields == fn_out.step.fields
            elems == fn_out.elems
        IN  /\ Len(fields) = Len(elems)
            /\ \A tag \in {"input", "select", "textarea"} :
                   \A i \in 1..Len(ControlsOf(page, tag)) :
                       (<<1, tag, i>> \in Range(elems))
                           <=> ~AnyRaises(ControlsOf(page, tag)[i].attrs,
                                          AttrNames)
            /\ \A a, b \in 1..Len(elems) : a < b => Before(elems[a], elems[b])
            /\ \A k \in 1..Len(elems) :
                   LET ctl == ControlsOf(page, elems[k][2])[elems[k][3]] IN
                   /\ fields[k] # Raises
                   /\ fields[k] = process_control(ctl, page.labels)
            /\ fn_out.step.step_number = 1
            /\ (fields = <<>>) <=>
                   \A tag \in {"input", "select", "textarea"} :
                       \A i \in 1..Len(ControlsOf(page, tag)) :
                           AnyRaises(ControlsOf(page, tag)[i].attrs, AttrNames)

\* A raising input followed by a good one, a raising select followed by a
\* good one, and a good textarea: exactly the good input, the good select
\* and the textarea come back, in that order.
C12_Witness ==
    /\ fn_pc = "ret_step"
    /\ fn_in.wait_ok /\ fn_in.find_ok
    /\ Len(fn_in.page.inputs) = 2
    /\ AnyRaises(fn_in.page.inputs[1].attrs, AttrNames)
    /\ Len(fn_in.page.selects) = 2
    /\ AnyRaises(fn_in.page.selects[1].attrs, AttrNames)
    /\ Len(fn_in.page.textareas) = 1
    /\ fn_out.elems = <<<<1, "input", 2>>, <<1, "select", 2>>,
                        <<1, "textarea", 1>>>>
    /\ Len(fn_out.step.fields) = 3
    /\ fn_out.step.fields[2].type = STR_select

\* The minimal record the claim gives a failed step.
MinimalStep(index, title) ==
    [step_number |-> index, title |-> title, description |-> <<>>,
     fields |-> <<>>, validation_rules |-> {}]

\* C13 as stated: every step recorded as failed, however it failed (wait
\* timed out, extraction raised, error while advancing to it), is the same
\* record: title `Step {index}`, empty description, fields and rules.
C13_Original ==
    (Returned /\ form_data # None /\ ~has_error(form_data)) =>
        /\ log.fail1 # "none" =>
               form_data.steps[1] =
                   MinimalStep(1, <<"S", "t", "e", "p", " ", "1">>)
        /\ log.fail2 # "none" =>
               form_data.steps[2] =
                   MinimalStep(2, <<"S", "t", "e", "p", " ", "2">>)

\* C13 amended: a step whose own extraction failed (wait timed out or
\* extraction raised) is recorded with title `Step {index}`, empty
\* description, fields and rules; the step 2 record produced after an error
\* while advancing has the same empty description, fields and rules but the
\* title `Step 2: PAN Validation`.
C13_FailedStepRecords ==
    (Returned /\ form_data # None /\ ~has_error(form_data)) =>
        /\ log.fail1 \in {"wait", "extract"} =>
               form_data.steps[1] =
                   MinimalStep(1, <<"S", "t", "e", "p", " ", "1">>)
        /\ log.fail2 \in {"wait", "extract"} =>
               form_data.steps[2] =
                   MinimalStep(2, <<"S", "t", "e", "p", " ", "2">>)
        /\ log.fail2 = "advance" =>
               form_data.steps[2] =
                   MinimalStep(2, <<"S", "t", "e", "p", " ", "2", ":", " ",
                                    "P", "A", "N", " ", "V", "a", "l", "i",
                                    "d", "a", "t", "i", "o", "n">>)
        /\ log.fail1 \in {"none", "wait", "extract"}
        /\ log.fail2 \in {"none", "wait", "extract", "advance"}

\* Step 1's extraction raised on a page with an extractable input and an
\* indicator title, and advancing to step 2 failed: both records are in the
\* saved document.
C13_Witness ==
    /\ pc = "done"
    /\ log.fail1 = "extract"
    /\ log.fail2 = "advance"
    /\ site[1].indicators[1][3] # Raises
    /\ \E i \in 1..Len(site[1].inputs) :
           process_control(site[1].inputs[i], site[1].labels) # Raises
    /\ ~has_error(form_data)
    /\ file = form_data

====
